---- MODULE Spec2Model ----
(***************************************************************************)
(* Model of the LineUp team solver (src/solver/solver.py).                 *)
(*                                                                         *)
(* solve_from_dict parses a roster of raw records into Player objects and  *)
(* calls solve_teams, which plans the team structure, splits the roster    *)
(* into a playing pool and a bench by check-in time, runs three draft      *)
(* strategies, refines each with optimize_with_swaps, keeps the partition  *)
(* with the lowest score, assigns roles and builds metrics and warnings.   *)
(*                                                                         *)
(* Representation choices:                                                 *)
(*  - raw JSON numbers (age, rating) are kept in tenths, so that 35 is the *)
(*    JSON number 3.5 and int() is truncation toward zero;                 *)
(*  - a timestamp is a record [tz, t]: tz says whether the parsed datetime *)
(*    is offset-naive or offset-aware, t is the instant; t = 0 is the      *)
(*    smallest datetime (datetime.min, 0001-01-01T00:00:00);               *)
(*  - scores are kept in half points (twice the Python float), so that     *)
(*    age_gap * 0.5 stays an integer; every Python score is a multiple of  *)
(*    0.5, which a float holds exactly, so comparisons are unchanged.      *)
(***************************************************************************)
EXTENDS Integers, Sequences, FiniteSets, TLC

VARIABLES
    input,            \* the raw roster handed to solve_from_dict
    n_players,        \* argument of determine_team_structure (planner runs)
    pc,               \* position in solve_from_dict / solve_teams
    players,          \* parsed Player list
    team_count, team_sizes, sub_count,
    playing_players, sub_players,
    si,               \* index into `strategies` of the strategy being run
    teams,            \* working partition of optimize_with_swaps
    generated,        \* the partition the strategy returned, as passed to optimize_with_swaps
    current_score, iteration, improved,
    all_results, best_teams, best_score, best_strategy,
    assignments, team_metrics, warnings,
    result            \* what solve_from_dict returns (or the raised error)

vars == <<input, n_players, pc, players, team_count, team_sizes, sub_count,
          playing_players, sub_players, si, teams, generated, current_score,
          iteration, improved, all_results, best_teams, best_score,
          best_strategy, assignments, team_metrics, warnings, result>>

-----------------------------------------------------------------------------
(* Bounds of the model *)

\* largest instant a check-in timestamp takes
MaxTime == 2
\* largest roster size of the small rosters whose players vary
MaxSmall == 7
\* largest roster size handed to the structure planner on its own
MaxPlan == 60

-----------------------------------------------------------------------------
(* Program constants *)

\* float('inf') of calculate_solution_score and of best_score
Infinity == 1000000000
\* default of optimize_with_swaps(max_iterations=50)
max_iterations == 50
\* solve_teams: if n < 6
MinPlayers == 6
\* p.get("rating", 3), in tenths
DefaultRating == 30

None == "none"
Position == {"GK", "DF", "MID", "ST"}
FieldPositions == <<"DF", "MID", "ST">>
draft_order == <<"GK", "DF", "MID", "ST">>
team_colors == <<"RED", "BLUE", "YELLOW">>
strategies == <<"position_aware", "snake_draft", "balanced_hybrid">>

-----------------------------------------------------------------------------
(* Generic helpers *)

Range(s) == {s[i] : i \in 1..Len(s)}

\* s[1] + ... + s[k]
RECURSIVE SumUpTo(_, _)
SumUpTo(s, k) == IF k = 0 THEN 0 ELSE SumUpTo(s, k - 1) + s[k]

\* sum(s)
SumSeq(s) == SumUpTo(s, Len(s))

MaxOf(S) == CHOOSE x \in S : \A y \in S : y <= x
MinOf(S) == CHOOSE x \in S : \A y \in S : x <= y

\* sorted(seq, key=...): Python's sort is stable; keys[i] is the key of seq[i].
\* The element at rank r is the one with r-1 elements before it in
\* (key, input index) order.
StableOrder(keys) ==
    LET N == Len(keys)
        Before(j, i) == keys[j] < keys[i] \/ (keys[j] = keys[i] /\ j < i)
        Rank(i) == Cardinality({j \in 1..N : Before(j, i)}) + 1
    IN  [r \in 1..N |-> CHOOSE i \in 1..N : Rank(i) = r]

SortedBy(seq, keys) ==
    LET ord == StableOrder(keys) IN [r \in 1..Len(seq) |-> seq[ord[r]]]

\* list.sort(key=lambda p: -p.rating) / sorted(players, key=lambda p: -p.rating)
SortByRatingDesc(seq) == SortedBy(seq, [i \in 1..Len(seq) |-> 0 - seq[i].rating])

-----------------------------------------------------------------------------
(* solve_from_dict: parsing one record *)

\* int(x) of a JSON number kept in tenths: truncation toward zero
IntOf(x) == IF x >= 0 THEN x \div 10 ELSE 0 - ((0 - x) \div 10)

\* checked_in_at = None
NoTime == [tz |-> "none", t |-> 0]

\* Position(value) raises ValueError on anything but the four values
ValidPosition(v) == v \in Position

\* checked_in_at: absent/empty -> None; unparseable -> None (ValueError caught);
\* without offset -> naive datetime; with 'Z' -> aware datetime
ParseCheckedIn(raw) ==
    IF raw.form = "absent" \/ raw.form = "bad" THEN NoTime
    ELSE [tz |-> raw.form, t |-> raw.t]

\* the record parses: main_position is a Position and alt_position, when
\* given, is one too
RecordParses(p) ==
    /\ ValidPosition(p.main_position)
    /\ (p.alt_position # None => ValidPosition(p.alt_position))

ParsePlayer(p) ==
    [ player_id     |-> p.player_id,
      age           |-> IntOf(p.age),
      rating        |-> IntOf(IF p.has_rating THEN p.rating ELSE DefaultRating),
      main_pos      |-> p.main_position,
      alt_pos       |-> p.alt_position,
      checked_in_at |-> ParseCheckedIn(p.checked_in_at) ]

-----------------------------------------------------------------------------
(* Team structure *)

\* determine_team_structure with the first test written n > 21
determine_team_structure_gt(n) ==
    IF n > 21 THEN [team_count |-> 3, team_sizes |-> <<7, 7, 7>>, sub_count |-> n - 21]
    ELSE IF n > 14 THEN [team_count |-> 2, team_sizes |-> <<7, 7>>, sub_count |-> n - 14]
    ELSE LET team1 == (n + 1) \div 2
             team2 == n - team1
         IN  [team_count |-> 2, team_sizes |-> <<team1, team2>>, sub_count |-> 0]

determine_team_structure(n) ==
    IF n >= 21 THEN [team_count |-> 3, team_sizes |-> <<7, 7, 7>>, sub_count |-> n - 21]
    ELSE IF n > 14 THEN [team_count |-> 2, team_sizes |-> <<7, 7>>, sub_count |-> n - 14]
    ELSE LET team1 == (n + 1) \div 2
             team2 == n - team1
         IN  [team_count |-> 2, team_sizes |-> <<team1, team2>>, sub_count |-> 0]

-----------------------------------------------------------------------------
(* Scoring *)

get_skill_sum(team) == SumSeq([i \in 1..Len(team) |-> team[i].rating])

get_age_sum(team) == SumSeq([i \in 1..Len(team) |-> team[i].age])

get_position_counts(team) ==
    [pos \in Position |-> Cardinality({i \in 1..Len(team) : team[i].main_pos = pos})]

can_cover(team, pos) == \E i \in 1..Len(team) : team[i].alt_pos = pos

\* position_score contribution of one team
team_position_score(team) ==
    LET pos_counts == get_position_counts(team)
        FieldPenalty(pos) ==
            IF pos_counts[pos] = 0
            THEN (IF can_cover(team, pos) THEN 10 ELSE 50)
            ELSE IF pos_counts[pos] >= 2 THEN 15 * (pos_counts[pos] - 1)
            ELSE 0
        GKPenalty ==
            IF pos_counts["GK"] = 0
            THEN (IF can_cover(team, "GK") THEN 0 ELSE 100)
            ELSE IF pos_counts["GK"] >= 2 THEN 80 * (pos_counts["GK"] - 1)
            ELSE 0
    IN  FieldPenalty("DF") + FieldPenalty("MID") + FieldPenalty("ST") + GKPenalty

\* the gap taken as first team minus second team, without the max and min
skill_gap_signed(ts) == get_skill_sum(ts[1]) - get_skill_sum(ts[2])

skill_gap_of(ts) ==
    LET skill_sums == {get_skill_sum(ts[t]) : t \in 1..Len(ts)}
    IN  MaxOf(skill_sums) - MinOf(skill_sums)

\* calculate_solution_score, in half points
calculate_solution_score(ts) ==
    IF ts = <<>> \/ \E t \in 1..Len(ts) : ts[t] = <<>>
    THEN Infinity
    ELSE LET skill_score == skill_gap_of(ts) * 100
             position_score == SumSeq([t \in 1..Len(ts) |-> team_position_score(ts[t])])
             age_sums == {get_age_sum(ts[t]) : t \in 1..Len(ts)}
             age_gap == MaxOf(age_sums) - MinOf(age_sums)
         IN  2 * (skill_score + position_score) + age_gap

-----------------------------------------------------------------------------
(* Draft strategies.  A draft in progress is a record                      *)
(* [teams, team_skills, assigned] as in the Python locals, and picks, the  *)
(* history of the choices of phase 2 of the hybrid (written, never read).  *)

EmptyDraft(tc) ==
    [teams |-> [t \in 1..tc |-> <<>>], team_skills |-> [t \in 1..tc |-> 0], assigned |-> {},
     picks |-> <<>>]

\* teams[t].append(player); team_skills[t] += player.rating; assigned.add(id)
Give(st, t, player) ==
    [st EXCEPT !.teams[t] = Append(@, player),
               !.team_skills[t] = @ + player.rating,
               !.assigned = @ \cup {player.player_id}]

\* by_position[pos], sorted by descending rating
by_position(ps, pos) == SortByRatingDesc(SelectSeq(ps, LAMBDA p : p.main_pos = pos))

Unassigned(ps, st) == SelectSeq(ps, LAMBDA p : p.player_id \notin st.assigned)

\* the snake step shared by the drafts: team_idx += direction, bouncing at
\* both ends (team indices are 1-based here)
SnakeStep(team_idx, direction, tc) ==
    LET nxt == team_idx + direction
    IN  IF nxt > tc THEN [team_idx |-> tc, direction |-> 0 - 1]
        ELSE IF nxt < 1 THEN [team_idx |-> 1, direction |-> 1]
        ELSE [team_idx |-> nxt, direction |-> direction]

(* --- strategy_position_aware_draft --- *)

\* best_team of the inner loop: the open team with the least
\* pos_count * 1000 + team_skills[t], the first one on a tie; 0 when no team
\* has room (best_team is None)
pa_best_team(st, pos, tc, sizes) ==
    LET open == {t \in 1..tc : Len(st.teams[t]) < sizes[t]}
        pos_count(t) == Cardinality({i \in 1..Len(st.teams[t]) : st.teams[t][i].main_pos = pos})
        score(t) == pos_count(t) * 1000 + st.team_skills[t]
    IN  IF open = {} THEN 0
        ELSE CHOOSE t \in open :
                \A u \in open : score(t) < score(u) \/ (score(t) = score(u) /\ t <= u)

RECURSIVE pa_place(_, _, _, _, _)
pa_place(st, pos_players, pos, tc, sizes) ==
    IF pos_players = <<>> THEN st
    ELSE LET player == Head(pos_players)
             best_team == pa_best_team(st, pos, tc, sizes)
         IN  pa_place(IF best_team # 0 THEN Give(st, best_team, player) ELSE st,
                      Tail(pos_players), pos, tc, sizes)

RECURSIVE pa_positions(_, _, _, _, _)
pa_positions(st, ps, k, tc, sizes) ==
    IF k > Len(draft_order) THEN st
    ELSE LET pos == draft_order[k]
             pos_players == Unassigned(by_position(ps, pos), st)
         IN  pa_positions(pa_place(st, pos_players, pos, tc, sizes), ps, k + 1, tc, sizes)

\* "remaining" loop: the lowest-skill team that has room (sorted() is stable,
\* so the lowest index on a tie); the player is dropped when none has room
RECURSIVE pa_remaining(_, _, _, _)
pa_remaining(st, remaining, tc, sizes) ==
    IF remaining = <<>> THEN st
    ELSE LET player == Head(remaining)
             open == {t \in 1..tc : Len(st.teams[t]) < sizes[t]}
             t0 == IF open = {} THEN 0
                   ELSE CHOOSE t \in open : \A u \in open :
                            st.team_skills[t] < st.team_skills[u]
                            \/ (st.team_skills[t] = st.team_skills[u] /\ t <= u)
             st2 == IF t0 = 0 THEN st
                    ELSE [st EXCEPT !.teams[t0] = Append(@, player),
                                    !.team_skills[t0] = @ + player.rating]
         IN  pa_remaining(st2, Tail(remaining), tc, sizes)

strategy_position_aware_draft(ps, tc, sizes) ==
    LET drafted == pa_positions(EmptyDraft(tc), ps, 1, tc, sizes)
    IN  pa_remaining(drafted, Unassigned(ps, drafted), tc, sizes).teams

(* --- strategy_snake_draft --- *)

RECURSIVE snake_place(_, _, _, _, _)
snake_place(ts, ps, team_idx, direction, tc) ==
    IF ps = <<>> THEN ts
    ELSE LET nxt == SnakeStep(team_idx, direction, tc)
         IN  snake_place([ts EXCEPT ![team_idx] = Append(@, Head(ps))], Tail(ps),
                         nxt.team_idx, nxt.direction, tc)

\* strategy_snake_draft with the slice one short: sorted_players[:total_playing - 1]
snake_draft_short_slice(ps, tc, sizes) ==
    LET sorted_players == SortByRatingDesc(ps)
        total_playing == SumSeq(sizes)
    IN  snake_place([t \in 1..tc |-> <<>>], SubSeq(sorted_players, 1, total_playing - 1), 1, 1, tc)

\* team_sizes is used only for total_playing
strategy_snake_draft(ps, tc, sizes) ==
    LET sorted_players == SortByRatingDesc(ps)
        total_playing == SumSeq(sizes)
        playing == SubSeq(sorted_players, 1,
                          IF total_playing < Len(ps) THEN total_playing ELSE Len(ps))
    IN  snake_place([t \in 1..tc |-> <<>>], playing, 1, 1, tc)

(* --- strategy_balanced_hybrid --- *)

\* Phase 1: one goalkeeper per team, alternately from the best and the worst
\* end of gks; t is the 0-based team index of the Python loop
RECURSIVE bh_phase1(_, _, _, _)
bh_phase1(st, gks, t, tc) ==
    IF t >= (IF Len(gks) < tc THEN Len(gks) ELSE tc) THEN st
    ELSE LET \* index into gks (1-based) of the chosen goalkeeper, 0 for None
             k == IF t % 2 = 0
                  THEN (IF t \div 2 < Len(gks) THEN (t \div 2) + 1 ELSE 0)
                  ELSE (IF (t \div 2) + 1 <= Len(gks) THEN Len(gks) - (t \div 2) ELSE 0)
             st2 == IF k # 0 /\ gks[k].player_id \notin st.assigned
                    THEN Give(st, t + 1, gks[k]) ELSE st
         IN  bh_phase1(st2, gks, t + 1, tc)

\* the test written with <: a team at the average counts as above it
StrictlyBelowAverage(st, t, tc) ==
    st.team_skills[t] * tc < SumSeq(st.team_skills)

\* team_skills[t] <= sum(team_skills) / team_count
AtOrBelowAverage(st, t, tc) ==
    st.team_skills[t] * tc <= SumSeq(st.team_skills)

\* Phase 2, one position: the loop over the teams, carrying pos_players
RECURSIVE bh_phase2_teams(_, _, _, _, _, _)
bh_phase2_teams(st, pos_players, pos, t, tc, sizes) ==
    IF t > tc THEN st
    ELSE LET has_pos == \E i \in 1..Len(st.teams[t]) : st.teams[t][i].main_pos = pos
         IN  IF has_pos \/ pos_players = <<>>
             THEN bh_phase2_teams(st, pos_players, pos, t + 1, tc, sizes)
             ELSE LET k == IF AtOrBelowAverage(st, t, tc) THEN 1 ELSE Len(pos_players)
                      player == pos_players[k]
                      \* what team t had and was offered when it received player
                      pick == [team |-> t, pos |-> pos,
                               skill |-> st.team_skills[t],
                               total |-> SumSeq(st.team_skills),
                               got |-> player.rating,
                               strongest |-> pos_players[1].rating,
                               weakest |-> pos_players[Len(pos_players)].rating]
                  IN  IF Len(st.teams[t]) < sizes[t]
                      THEN bh_phase2_teams([Give(st, t, player) EXCEPT !.picks = Append(@, pick)],
                               [i \in 1..(Len(pos_players) - 1) |->
                                   IF i < k THEN pos_players[i] ELSE pos_players[i + 1]],
                               pos, t + 1, tc, sizes)
                      ELSE bh_phase2_teams(st, pos_players, pos, t + 1, tc, sizes)

RECURSIVE bh_phase2(_, _, _, _, _)
bh_phase2(st, ps, k, tc, sizes) ==
    IF k > Len(FieldPositions) THEN st
    ELSE LET pos == FieldPositions[k]
             pos_players == Unassigned(by_position(ps, pos), st)
         IN  bh_phase2(bh_phase2_teams(st, pos_players, pos, 1, tc, sizes),
                       ps, k + 1, tc, sizes)

\* Phase 3: the while loop looking for a team with room
RECURSIVE bh_seek(_, _, _, _, _, _)
bh_seek(ts, team_idx, direction, attempts, tc, sizes) ==
    IF Len(ts[team_idx]) >= sizes[team_idx] /\ attempts < tc * 2
    THEN LET nxt == SnakeStep(team_idx, direction, tc)
         IN  bh_seek(ts, nxt.team_idx, nxt.direction, attempts + 1, tc, sizes)
    ELSE [team_idx |-> team_idx, direction |-> direction]

RECURSIVE bh_phase3(_, _, _, _, _, _)
bh_phase3(st, remaining, team_idx, direction, tc, sizes) ==
    IF remaining = <<>> THEN st
    ELSE LET player == Head(remaining)
             at == bh_seek(st.teams, team_idx, direction, 0, tc, sizes)
             st2 == IF Len(st.teams[at.team_idx]) < sizes[at.team_idx]
                    THEN [st EXCEPT !.teams[at.team_idx] = Append(@, player),
                                    !.team_skills[at.team_idx] = @ + player.rating]
                    ELSE st
             nxt == SnakeStep(at.team_idx, at.direction, tc)
         IN  bh_phase3(st2, Tail(remaining), nxt.team_idx, nxt.direction, tc, sizes)

\* the choices phases 1 and 2 of the hybrid make for ps, in order
bh_picks(ps, tc, sizes) ==
    bh_phase2(bh_phase1(EmptyDraft(tc), by_position(ps, "GK"), 0, tc), ps, 1, tc, sizes).picks

strategy_balanced_hybrid(ps, tc, sizes) ==
    LET p1 == bh_phase1(EmptyDraft(tc), by_position(ps, "GK"), 0, tc)
        p2 == bh_phase2(p1, ps, 1, tc, sizes)
        remaining == SortByRatingDesc(Unassigned(ps, p2))
        \* min(range(team_count), key=...): the first team of lowest skill
        start == CHOOSE t \in 1..tc : \A u \in 1..tc :
                    p2.team_skills[t] < p2.team_skills[u]
                    \/ (p2.team_skills[t] = p2.team_skills[u] /\ t <= u)
    IN  bh_phase3(p2, remaining, start, 1, tc, sizes).teams

\* strategy_fn(playing_players, team_count, team_sizes) for the k-th strategy
RunStrategy(k, ps, tc, sizes) ==
    IF k = 1 THEN strategy_position_aware_draft(ps, tc, sizes)
    ELSE IF k = 2 THEN strategy_snake_draft(ps, tc, sizes)
    ELSE strategy_balanced_hybrid(ps, tc, sizes)

-----------------------------------------------------------------------------
(* optimize_with_swaps *)

\* the swap written as one assignment: teams[t1][p1] = teams[t2][p2]
SwapPlayers_one_way(ts, sw) ==
    [ts EXCEPT ![sw[1]][sw[3]] = ts[sw[2]][sw[4]]]

\* teams[t1][p1], teams[t2][p2] = teams[t2][p2], teams[t1][p1]
SwapPlayers(ts, sw) ==
    [ts EXCEPT ![sw[1]][sw[3]] = ts[sw[2]][sw[4]], ![sw[2]][sw[4]] = ts[sw[1]][sw[3]]]

\* every (t1, t2, p1, p2) the four nested loops visit, t1 < t2
AllSwaps(ts) ==
    {<<t1, t2, p1, p2>> : t1 \in 1..Len(ts), t2 \in 1..Len(ts),
                          p1 \in 1..MaxOf({Len(ts[t]) : t \in 1..Len(ts)} \cup {0}),
                          p2 \in 1..MaxOf({Len(ts[t]) : t \in 1..Len(ts)} \cup {0})}

Swaps(ts) ==
    {sw \in AllSwaps(ts) : sw[1] < sw[2] /\ sw[3] <= Len(ts[sw[1]]) /\ sw[4] <= Len(ts[sw[2]])}

\* the order in which the loops visit the swaps
VisitedBefore(a, b) ==
    \/ a[1] < b[1]
    \/ a[1] = b[1] /\ a[2] < b[2]
    \/ a[1] = b[1] /\ a[2] = b[2] /\ a[3] < b[3]
    \/ a[1] = b[1] /\ a[2] = b[2] /\ a[3] = b[3] /\ a[4] < b[4]

\* best_swap that keeps the last improving swap visited but books the
\* largest improvement seen
best_swap_last_visited(ts, cur) ==
    LET cands == Swaps(ts)
        improvement == [sw \in cands |-> cur - calculate_solution_score(SwapPlayers(ts, sw))]
        good == {sw \in cands : improvement[sw] > 0}
    IN  IF good = {} THEN [swap |-> <<>>, improvement |-> 0]
        ELSE [swap |-> CHOOSE sw \in good : \A o \in good : o # sw => VisitedBefore(o, sw),
              improvement |-> MaxOf({improvement[sw] : sw \in good})]

\* One pass of the while loop body: [swap, improvement], the first swap
\* visited with the largest improvement > 0; swap is <<>> when there is none
best_swap(ts, cur) ==
    LET cands == Swaps(ts)
        improvement == [sw \in cands |-> cur - calculate_solution_score(SwapPlayers(ts, sw))]
        good == {sw \in cands : improvement[sw] > 0}
    IN  IF good = {} THEN [swap |-> <<>>, improvement |-> 0]
        ELSE LET top == MaxOf({improvement[sw] : sw \in good})
                 best == CHOOSE sw \in good :
                            /\ improvement[sw] = top
                            /\ \A o \in good : improvement[o] = top /\ o # sw => VisitedBefore(sw, o)
             IN  [swap |-> best, improvement |-> top]

-----------------------------------------------------------------------------
(* solve_teams: playing/bench split *)

\* datetime.min, the key of a player without check-in time
DatetimeMin == [tz |-> "naive", t |-> 0]

get_checkin_time(p) == IF p.checked_in_at # NoTime THEN p.checked_in_at ELSE DatetimeMin

\* sorted(players, key=get_checkin_time) compares the keys with <, and
\* comparing an offset-naive with an offset-aware datetime raises TypeError.
\* Any sort of two or more keys compares the neighbours of its output, so
\* the call raises exactly when both kinds of key are present.
SortRaises(ps) ==
    \E i, j \in 1..Len(ps) : get_checkin_time(ps[i]).tz # get_checkin_time(ps[j]).tz

sorted_by_checkin(ps) == SortedBy(ps, [i \in 1..Len(ps) |-> get_checkin_time(ps[i]).t])

-----------------------------------------------------------------------------
(* solve_teams: role assignment.  assigned_roles is kept by index in the   *)
(* team (player ids are distinct within a roster).  The state of the pass  *)
(* is [pos_counts, assigned_roles] and moves, the history of its           *)
(* reassignments with pos_counts after each (written, never read).         *)

\* pos_counts and assigned_roles after player i leaves current_role for pos
Reassign(st, i, current_role, pos) ==
    LET counts == [st.pos_counts EXCEPT ![current_role] = @ - 1, ![pos] = @ + 1]
    IN  [pos_counts |-> counts,
         assigned_roles |-> [st.assigned_roles EXCEPT ![i] = pos],
         moves |-> Append(st.moves, [player |-> i, from |-> current_role, to |-> pos,
                                     counts |-> counts])]

\* the second pass with the test written pos_counts[current_role] >= 1: a
\* role's only occupant may be moved away
RECURSIVE fill_gaps_sole_occupant(_, _, _)
fill_gaps_sole_occupant(team, st, k) ==
    IF k > Len(FieldPositions) THEN st
    ELSE LET pos == FieldPositions[k]
             movable == {i \in 1..Len(team) :
                            team[i].alt_pos = pos /\ st.pos_counts[st.assigned_roles[i]] >= 1}
         IN  IF st.pos_counts[pos] = 0 /\ movable # {}
             THEN LET i == MinOf(movable)
                  IN  fill_gaps_sole_occupant(team, Reassign(st, i, st.assigned_roles[i], pos),
                                              k + 1)
             ELSE fill_gaps_sole_occupant(team, st, k + 1)

\* the second pass run over all four positions, goalkeeper included
RECURSIVE fill_gaps_all_positions(_, _, _)
fill_gaps_all_positions(team, st, k) ==
    IF k > Len(draft_order) THEN st
    ELSE LET pos == draft_order[k]
             movable == {i \in 1..Len(team) :
                            team[i].alt_pos = pos /\ st.pos_counts[st.assigned_roles[i]] > 1}
         IN  IF st.pos_counts[pos] = 0 /\ movable # {}
             THEN LET i == MinOf(movable)
                      current_role == st.assigned_roles[i]
                  IN  fill_gaps_all_positions(team, Reassign(st, i, current_role, pos), k + 1)
             ELSE fill_gaps_all_positions(team, st, k + 1)

RECURSIVE fill_gaps(_, _, _)
fill_gaps(team, st, k) ==
    IF k > Len(FieldPositions) THEN st
    ELSE LET pos == FieldPositions[k]
             movable == {i \in 1..Len(team) :
                            team[i].alt_pos = pos /\ st.pos_counts[st.assigned_roles[i]] > 1}
         IN  IF st.pos_counts[pos] = 0 /\ movable # {}
             THEN LET i == MinOf(movable)
                      current_role == st.assigned_roles[i]
                  IN  fill_gaps(team, Reassign(st, i, current_role, pos), k + 1)
             ELSE fill_gaps(team, st, k + 1)

\* the two passes over one team: the final pos_counts and assigned_roles
role_pass(team) ==
    fill_gaps(team,
              [pos_counts |-> get_position_counts(team),
               assigned_roles |-> [i \in 1..Len(team) |-> team[i].main_pos],
               moves |-> <<>>],
              1)

assign_roles(team) == role_pass(team).assigned_roles

team_assignments(team, color) ==
    LET roles == assign_roles(team)
    IN  [i \in 1..Len(team) |->
            [player_id |-> team[i].player_id, team |-> color,
             role |-> roles[i], bench_team |-> None]]

RECURSIVE Concat(_)
Concat(ss) == IF ss = <<>> THEN <<>> ELSE Head(ss) \o Concat(Tail(ss))

\* bench_team = team_colors[i % team_count], i 0-based
sub_assignments(subs, tc) ==
    [i \in 1..Len(subs) |->
        [player_id |-> subs[i].player_id, team |-> "SUB",
         role |-> subs[i].main_pos, bench_team |-> team_colors[((i - 1) % tc) + 1]]]

make_assignments(bt, subs, tc) ==
    Concat([t \in 1..Len(bt) |-> team_assignments(bt[t], team_colors[t])])
        \o sub_assignments(subs, tc)

-----------------------------------------------------------------------------
(* solve_teams: metrics and warnings *)

role_counts(asg, color) ==
    [pos \in Position |->
        Cardinality({i \in 1..Len(asg) : asg[i].team = color /\ asg[i].role = pos})]

make_team_metrics(bt, asg) ==
    [t \in 1..Len(bt) |->
        LET pos_counts == role_counts(asg, team_colors[t])
        IN  [team |-> team_colors[t],
             player_count |-> Len(bt[t]),
             skill_sum |-> get_skill_sum(bt[t]),
             age_sum |-> get_age_sum(bt[t]),
             has_goalkeeper |-> pos_counts["GK"] > 0,
             positions |-> pos_counts]]

field_warnings(color, pos_counts) ==
    Concat([k \in 1..Len(FieldPositions) |->
        LET pos == FieldPositions[k]
        IN  IF pos_counts[pos] = 0 THEN << <<"has_no", color, pos>> >>
            ELSE IF pos_counts[pos] >= 2 THEN << <<"has_many", color, pos, pos_counts[pos]>> >>
            ELSE <<>>])

make_warnings(metrics) ==
    LET per_team ==
            Concat([t \in 1..Len(metrics) |->
                (IF metrics[t].has_goalkeeper THEN <<>>
                 ELSE << <<"missing_goalkeeper", metrics[t].team>> >>)
                \o field_warnings(metrics[t].team, metrics[t].positions)])
        skill_sums == {metrics[t].skill_sum : t \in 1..Len(metrics)}
        skill_gap == MaxOf(skill_sums) - MinOf(skill_sums)
    IN  per_team \o (IF skill_gap > 2 THEN << <<"skill_gap", skill_gap>> >> ELSE <<>>)

-----------------------------------------------------------------------------
(* Rosters the model is run on *)

Absent == [form |-> "absent", t |-> 0]

\* the record of slot i when nothing about it is varied
TemplateRecord(i) ==
    [ player_id     |-> i,
      age           |-> 10 * <<20, 30, 25>>[((i - 1) % 3) + 1],
      has_rating    |-> TRUE,
      rating        |-> 10 * <<5, 1, 3, 4, 2>>[((i - 1) % 5) + 1],
      main_position |-> draft_order[((i - 1) % 4) + 1],
      alt_position  |-> <<None, "ST", None, "MID", "GK">>[((i - 1) % 5) + 1],
      checked_in_at |-> Absent ]

TemplateRoster(n) == [i \in 1..n |-> TemplateRecord(i)]

\* rosters of 5..MaxSmall players whose first two players vary in rating,
\* main and alternate position
Palette ==
    [rating : {10, 50}, main_position : Position, alt_position : {None, "GK", "DF"}]

KindRosters ==
    { [i \in 1..n |->
          IF i = 1 THEN [TemplateRecord(i) EXCEPT !.rating = k1.rating,
                            !.main_position = k1.main_position,
                            !.alt_position = k1.alt_position]
          ELSE IF i = 2 THEN [TemplateRecord(i) EXCEPT !.rating = k2.rating,
                            !.main_position = k2.main_position,
                            !.alt_position = k2.alt_position]
          ELSE TemplateRecord(i)] :
      n \in (MinPlayers - 1)..MaxSmall, k1 \in Palette, k2 \in Palette }

\* check-in values of a record: absent, unparseable, without offset, with 'Z'
CheckIns ==
    {Absent, [form |-> "bad", t |-> 0]} \cup [form : {"naive", "aware"}, t : 0..MaxTime]

\* rosters without and with a bench whose first and last player take every
\* check-in value, the others sharing one
TimeRosters ==
    { [i \in 1..n |->
          [TemplateRecord(i) EXCEPT !.checked_in_at =
              IF i = 1 THEN c1 ELSE IF i = n THEN c2 ELSE base]] :
      n \in {MinPlayers, 15, 16}, c1 \in CheckIns, c2 \in CheckIns,
      base \in {Absent, [form |-> "naive", t |-> 1], [form |-> "aware", t |-> 1]} }

\* rosters whose first record carries out-of-range or fractional numbers,
\* a missing rating or an unknown position
RawRosters ==
    { [i \in 1..MinPlayers |->
          IF i = 1 THEN [TemplateRecord(i) EXCEPT !.has_rating = h, !.rating = r,
                                                  !.age = a, !.main_position = m]
          ELSE TemplateRecord(i)] :
      h \in BOOLEAN, r \in {0 - 5, 0, 10, 35, 50, 60, 90},
      a \in {40, 50, 255, 1000, 1010},
      m \in {"GK", "ST", "XX"} }

\* rosters of three teams, without and with a bench
BigRosters ==
    { [TemplateRoster(n) EXCEPT ![1].rating = r] : n \in {21, 22}, r \in {10, 50} }

\* rosters with a bench in which nobody's main position is DF and only the
\* first two players are goalkeepers
ShortageRosters ==
    { [i \in 1..n |->
          [TemplateRecord(i) EXCEPT
              !.rating = IF i = 1 THEN r ELSE @,
              !.main_position = IF i <= 2 THEN "GK" ELSE IF i % 2 = 0 THEN "MID" ELSE "ST",
              !.alt_position = <<None, "DF", "GK">>[((i - 1) % 3) + 1]]] :
      n \in {15, 16}, r \in {10, 50} }

\* main positions of the four field players of a skill-split roster
FieldLayouts == {<<"DF", "MID", "ST", "DF">>, <<"ST", "MID", "DF", "MID">>}

\* the three places of a roster of six whose players are rated 5
StrongPlaces == {S \in SUBSET (1..MinPlayers) : Cardinality(S) = 3}

\* rosters of six with three ratings of 5 and three of 1 in every order, two
\* goalkeepers at every pair of places and the other four over DF, MID, ST
SkillSplitPlacements ==
    { [i \in 1..MinPlayers |->
          [TemplateRecord(i) EXCEPT
              !.rating = IF i \in strong THEN 50 ELSE 10,
              !.main_position =
                  IF i \in gks THEN "GK"
                  ELSE layout[Cardinality({j \in 1..i : j \notin gks})]]] :
      strong \in StrongPlaces,
      gks \in {G \in SUBSET (1..MinPlayers) : Cardinality(G) = 2},
      layout \in FieldLayouts }

\* alternate positions of the six players: a goalkeeper-capable midfielder
\* beside goalkeepers who can play in the field, nobody with an alternate,
\* and the alternates of TemplateRecord
AltPatterns ==
    { <<"MID", "ST", None, None, "GK", None>>,
      <<None, None, None, None, None, None>>,
      <<None, "ST", None, "MID", "GK", None>> }

\* rosters GK, GK, DF, DF, MID, ST with the ratings in every order, every
\* player aged 5 or 100 and the alternates of each pattern
SkillSplitAges ==
    { [i \in 1..MinPlayers |->
          [TemplateRecord(i) EXCEPT
              !.rating = IF i \in strong THEN 50 ELSE 10,
              !.age = IF i \in old THEN 1000 ELSE 50,
              !.main_position = <<"GK", "GK", "DF", "DF", "MID", "ST">>[i],
              !.alt_position = alts[i]]] :
      strong \in StrongPlaces, old \in SUBSET (1..MinPlayers), alts \in AltPatterns }

\* goalkeepers rated 1 and 5 aged 90 and 10, defenders rated 5 and 1 aged
\* 100 and 95, a midfielder rated 5 aged 5 who can keep goal, a striker
\* rated 1 aged 100
AgeBalancedRoster ==
    [i \in 1..MinPlayers |->
        [TemplateRecord(i) EXCEPT
            !.rating = 10 * <<1, 5, 5, 1, 5, 1>>[i],
            !.age = 10 * <<90, 10, 100, 95, 5, 100>>[i],
            !.main_position = <<"GK", "GK", "DF", "DF", "MID", "ST">>[i],
            !.alt_position = <<"MID", "ST", None, None, "GK", None>>[i]]]

SkillSplitRosters == SkillSplitPlacements \cup SkillSplitAges \cup {AgeBalancedRoster}

\* rosters of 22 field players of whom exactly three can keep goal, by main
\* position or by alternate position only; the three are the first three
\* players, or the first two and the last one (who is benched)
KeeperRosters ==
    { [i \in 1..22 |->
          [TemplateRecord(i) EXCEPT
              !.main_position = IF i \in keepers /\ by_main THEN "GK"
                                ELSE FieldPositions[((i - 1) % 3) + 1],
              !.alt_position = IF i \in keepers /\ ~by_main THEN "GK" ELSE None]] :
      keepers \in {{1, 2, 3}, {1, 2, 22}}, by_main \in BOOLEAN }

Rosters ==
    KindRosters \cup TimeRosters \cup RawRosters \cup BigRosters \cup ShortageRosters
    \cup SkillSplitPlacements \cup KeeperRosters

-----------------------------------------------------------------------------
(* The state machine *)

\* teams = deepcopy(teams): the lists the caller passed in are not the lists
\* the swaps write to, so the caller's partition stays what it was
caller_partition(passed_in, working) == passed_in

\* the test written against 5
too_few_below_five(n) == n < MinPlayers - 1

\* the test "n < 6" of solve_teams
too_few(n) == n < MinPlayers

\* the test written score <= best_score: the last of equal scores wins
is_better_or_equal(score, best) == score <= best

\* the test "score < best_score" of the strategy loop
is_better(score, best) == score < best

NoResult == [kind |-> "none", success |-> FALSE, message |-> "",
             assignments |-> <<>>, team_metrics |-> <<>>, warnings |-> <<>>]

\* SolveResult(...).to_dict()
Returned(ok, msg, asg, metrics, warns) ==
    [kind |-> "returned", success |-> ok, message |-> msg,
     assignments |-> asg, team_metrics |-> metrics, warnings |-> warns]

\* the dict solve_from_dict returns from its except branch: it has the keys
\* success and message only
InvalidPlayerData ==
    [kind |-> "returned", success |-> FALSE, message |-> "invalid_player_data"]

\* an exception leaving solve_from_dict
Raised(what) == [NoResult EXCEPT !.kind = "raised", !.message = what]

Blank ==
    /\ players = <<>>
    /\ team_count = 0 /\ team_sizes = <<>> /\ sub_count = 0
    /\ playing_players = <<>> /\ sub_players = <<>>
    /\ si = 0
    /\ teams = <<>> /\ generated = <<>>
    /\ current_score = 0 /\ iteration = 0 /\ improved = FALSE
    /\ all_results = <<>>
    /\ best_teams = <<>> /\ best_score = Infinity /\ best_strategy = None
    /\ assignments = <<>> /\ team_metrics = <<>> /\ warnings = <<>>
    /\ result = NoResult

Init ==
    /\ input \in Rosters
    /\ n_players = Len(input)
    /\ pc = "parse"
    /\ Blank

\* solve_from_dict: a record raises inside the try block
ParseFails ==
    /\ pc = "parse"
    /\ \E i \in 1..Len(input) : ~RecordParses(input[i])
    /\ result' = InvalidPlayerData
    /\ pc' = "done"
    /\ UNCHANGED <<input, n_players, players, team_count, team_sizes, sub_count,
                   playing_players, sub_players, si, teams, generated,
                   current_score, iteration, improved, all_results, best_teams,
                   best_score, best_strategy, assignments, team_metrics, warnings>>

\* solve_from_dict: every record becomes a Player; solve_teams is entered
ParseOk ==
    /\ pc = "parse"
    /\ \A i \in 1..Len(input) : RecordParses(input[i])
    /\ players' = [i \in 1..Len(input) |-> ParsePlayer(input[i])]
    /\ pc' = "solve"
    /\ UNCHANGED <<input, n_players, team_count, team_sizes, sub_count,
                   playing_players, sub_players, si, teams, generated,
                   current_score, iteration, improved, all_results, best_teams,
                   best_score, best_strategy, assignments, team_metrics, warnings,
                   result>>

\* solve_teams: if n < 6: return SolveResult(success=False, ...)
RejectSmall ==
    /\ pc = "solve"
    /\ too_few(Len(players))
    /\ result' = Returned(FALSE, "not_enough_players", <<>>, <<>>, <<>>)
    /\ pc' = "done"
    /\ UNCHANGED <<input, n_players, players, team_count, team_sizes, sub_count,
                   playing_players, sub_players, si, teams, generated,
                   current_score, iteration, improved, all_results, best_teams,
                   best_score, best_strategy, assignments, team_metrics, warnings>>

\* solve_teams: sorted(players, key=get_checkin_time) raises TypeError, which
\* nothing in solve_teams or solve_from_dict catches
SplitRaises ==
    /\ pc = "solve"
    /\ ~too_few(Len(players))
    /\ SortRaises(players)
    /\ LET plan == determine_team_structure(Len(players))
       IN  /\ team_count' = plan.team_count
           /\ team_sizes' = plan.team_sizes
           /\ sub_count' = plan.sub_count
    /\ result' = Raised("TypeError")
    /\ pc' = "raised"
    /\ UNCHANGED <<input, n_players, players, playing_players, sub_players, si,
                   teams, generated, current_score, iteration, improved,
                   all_results, best_teams, best_score, best_strategy,
                   assignments, team_metrics, warnings>>

\* solve_teams: the plan, then the split into playing pool and bench
Split ==
    /\ pc = "solve"
    /\ ~too_few(Len(players))
    /\ ~SortRaises(players)
    /\ LET plan == determine_team_structure(Len(players))
           total_playing == SumSeq(plan.team_sizes)
           sorted == sorted_by_checkin(players)
       IN  /\ team_count' = plan.team_count
           /\ team_sizes' = plan.team_sizes
           /\ sub_count' = plan.sub_count
           /\ playing_players' = SubSeq(sorted, 1, total_playing)
           /\ sub_players' = SubSeq(sorted, total_playing + 1, Len(sorted))
    /\ si' = 1
    /\ pc' = "generate"
    /\ UNCHANGED <<input, n_players, players, teams, generated, current_score,
                   iteration, improved, all_results, best_teams, best_score,
                   best_strategy, assignments, team_metrics, warnings, result>>

\* the strategy loop body up to the first test of the while loop:
\* teams = strategy_fn(...); optimize_with_swaps deep-copies it and scores it
Generate ==
    /\ pc = "generate"
    /\ LET out == RunStrategy(si, playing_players, team_count, team_sizes)
       IN  /\ generated' = out
           /\ teams' = out
           /\ current_score' = calculate_solution_score(out)
    /\ improved' = TRUE
    /\ iteration' = 0
    /\ pc' = "optimize"
    /\ UNCHANGED <<input, n_players, players, team_count, team_sizes, sub_count,
                   playing_players, sub_players, si, all_results, best_teams,
                   best_score, best_strategy, assignments, team_metrics, warnings,
                   result>>

\* one iteration of the while loop of optimize_with_swaps
OptimizeStep ==
    /\ pc = "optimize"
    /\ improved /\ iteration < max_iterations
    /\ iteration' = iteration + 1
    /\ LET best == best_swap(teams, current_score)
       IN  IF best.swap # <<>> /\ best.improvement > 0
           THEN /\ teams' = SwapPlayers(teams, best.swap)
                /\ current_score' = current_score - best.improvement
                /\ improved' = TRUE
           ELSE /\ improved' = FALSE
                /\ UNCHANGED <<teams, current_score>>
    /\ generated' = caller_partition(generated, teams')
    /\ UNCHANGED <<input, n_players, players, team_count, team_sizes, sub_count,
                   playing_players, sub_players, si, all_results,
                   best_teams, best_score, best_strategy, assignments,
                   team_metrics, warnings, result, pc>>

\* optimize_with_swaps returns; the strategy loop scores the result and keeps
\* it when score < best_score.  No strategy raises, so the except branch and
\* the "All strategies failed" return are never taken.
Select ==
    /\ pc = "optimize"
    /\ ~(improved /\ iteration < max_iterations)
    /\ LET score == calculate_solution_score(teams)
       IN  /\ all_results' = Append(all_results,
                                [strategy |-> strategies[si], score |-> score, teams |-> teams])
           /\ IF is_better(score, best_score)
              THEN /\ best_score' = score
                   /\ best_teams' = teams
                   /\ best_strategy' = strategies[si]
              ELSE UNCHANGED <<best_score, best_teams, best_strategy>>
    /\ IF si < Len(strategies)
       THEN si' = si + 1 /\ pc' = "generate"
       ELSE si' = si /\ pc' = "roles"
    /\ UNCHANGED <<input, n_players, players, team_count, team_sizes, sub_count,
                   playing_players, sub_players, teams, generated, current_score,
                   iteration, improved, assignments, team_metrics, warnings, result>>

\* solve_teams: role assignment and the bench assignments
AssignRoles ==
    /\ pc = "roles"
    /\ best_teams # <<>>
    /\ assignments' = make_assignments(best_teams, sub_players, team_count)
    /\ pc' = "metrics"
    /\ UNCHANGED <<input, n_players, players, team_count, team_sizes, sub_count,
                   playing_players, sub_players, si, teams, generated,
                   current_score, iteration, improved, all_results, best_teams,
                   best_score, best_strategy, team_metrics, warnings, result>>

\* solve_teams: metrics, warnings and the successful result
Finish ==
    /\ pc = "metrics"
    /\ LET metrics == make_team_metrics(best_teams, assignments)
           warns == make_warnings(metrics)
       IN  /\ team_metrics' = metrics
           /\ warnings' = warns
           /\ result' = Returned(TRUE, best_strategy, assignments, metrics, warns)
    /\ pc' = "done"
    /\ UNCHANGED <<input, n_players, players, team_count, team_sizes, sub_count,
                   playing_players, sub_players, si, teams, generated,
                   current_score, iteration, improved, all_results, best_teams,
                   best_score, best_strategy, assignments>>

\* determine_team_structure called on its own
PlanInit ==
    /\ input = <<>>
    /\ n_players \in 0..MaxPlan
    /\ pc = "plan"
    /\ Blank

Plan ==
    /\ pc = "plan"
    /\ LET plan == determine_team_structure(n_players)
       IN  /\ team_count' = plan.team_count
           /\ team_sizes' = plan.team_sizes
           /\ sub_count' = plan.sub_count
    /\ pc' = "planned"
    /\ UNCHANGED <<input, n_players, players, playing_players, sub_players, si,
                   teams, generated, current_score, iteration, improved,
                   all_results, best_teams, best_score, best_strategy,
                   assignments, team_metrics, warnings, result>>

Next ==
    \/ ParseFails
    \/ ParseOk
    \/ RejectSmall
    \/ SplitRaises
    \/ Split
    \/ Generate
    \/ OptimizeStep
    \/ Select
    \/ AssignRoles
    \/ Finish

Spec == Init /\ [][Next]_vars

\* solve_from_dict on the skill-split rosters: every record parses, there
\* are six players and no check-in times
SkillInit ==
    /\ input \in SkillSplitRosters
    /\ n_players = Len(input)
    /\ pc = "parse"
    /\ Blank

SkillNext ==
    \/ ParseOk
    \/ Split
    \/ Generate
    \/ OptimizeStep
    \/ Select
    \/ AssignRoles
    \/ Finish

SpecSkill == SkillInit /\ [][SkillNext]_vars

PlanNext == Plan

SpecPlan == PlanInit /\ [][PlanNext]_vars

-----------------------------------------------------------------------------
(* Properties *)

Succeeded == pc = "done" /\ result.kind = "returned" /\ result.success

InputIds == {input[i].player_id : i \in 1..Len(input)}

\* the indices of the result's assignments that carry player id
AssignmentsOf(id) ==
    {k \in 1..Len(result.assignments) : result.assignments[k].player_id = id}

\* C1: a successful result holds exactly n assignments and every input
\* player_id occurs in exactly one of them
C1_EveryPlayerAssignedOnce ==
    Succeeded =>
        /\ Len(result.assignments) = Len(input)
        /\ \A id \in InputIds : Cardinality(AssignmentsOf(id)) = 1

\* a success of an odd roster whose partition came from the hybrid strategy
C1_Witness ==
    /\ Succeeded
    /\ best_strategy = "balanced_hybrid"
    /\ Len(input) = 7

\* the number of assignments to a team colour / to the bench
AssignedTo(color) ==
    Cardinality({k \in 1..Len(result.assignments) : result.assignments[k].team = color})

\* C2: in the result team t has determine_team_structure(n).team_sizes[t]
\* players for every t, and the bench has n minus the planned sizes
C2_TeamSizesMatchPlan ==
    Succeeded =>
        LET plan == determine_team_structure(Len(input))
        IN  /\ \A t \in 1..plan.team_count :
                  AssignedTo(team_colors[t]) = plan.team_sizes[t]
            /\ AssignedTo("SUB") = Len(input) - SumSeq(plan.team_sizes)

\* C3: the structure planner's answer for every n >= 0
C3_StructureTable ==
    pc = "planned" =>
        LET n == n_players
        IN  /\ n >= 21 => /\ team_count = 3
                          /\ team_sizes = <<7, 7, 7>>
                          /\ sub_count = n - 21
            /\ (15 <= n /\ n <= 20) => /\ team_count = 2
                                       /\ team_sizes = <<7, 7>>
                                       /\ sub_count = n - 14
            /\ n <= 14 => /\ team_count = 2
                          /\ Len(team_sizes) = 2
                          /\ team_sizes[1] + team_sizes[2] = n
                          /\ team_sizes[1] - team_sizes[2] \in {0, 1}
                          /\ sub_count = 0
            /\ Len(team_sizes) = team_count
            /\ SumSeq(team_sizes) + sub_count = n

\* the planner has answered for 21 players: three teams of 7, no bench
C3_Witness ==
    /\ pc = "planned"
    /\ n_players = 21
    /\ team_count = 3
    /\ sub_count = 0

\* C4: a roster whose records all parse never ends in an unhandled error;
\* solve_from_dict returns a result carrying a success flag
C4_NeverRaises ==
    (\A i \in 1..Len(input) : RecordParses(input[i])) =>
        /\ pc # "raised"
        /\ result.kind # "raised"

HasTime(p) == p.checked_in_at # NoTime

\* position of a player in the roster handed to solve_teams
InputIndex(p) == CHOOSE i \in 1..Len(players) : players[i].player_id = p.player_id

\* the order of the claim as written: a player without timestamp sorts
\* before every player that has one; equal keys keep their input order
WrittenBefore(p, q) ==
    \/ ~HasTime(p) /\ HasTime(q)
    \/ ~HasTime(p) /\ ~HasTime(q) /\ InputIndex(p) < InputIndex(q)
    \/ /\ HasTime(p) /\ HasTime(q)
       /\ \/ p.checked_in_at.t < q.checked_in_at.t
          \/ p.checked_in_at.t = q.checked_in_at.t /\ InputIndex(p) < InputIndex(q)

\* playing_players and sub_players hold every player once, the pool has
\* total_playing players
PoolsPartitionRoster ==
    /\ Len(playing_players) = SumSeq(team_sizes)
    /\ Len(playing_players) + Len(sub_players) = Len(players)
    /\ Range(playing_players) \cup Range(sub_players) = Range(players)

\* no bench player arrived strictly earlier than a playing player
NoBenchArrivedEarlier ==
    \A i \in 1..Len(playing_players), j \in 1..Len(sub_players) :
        HasTime(playing_players[i]) /\ HasTime(sub_players[j])
            => ~(sub_players[j].checked_in_at.t < playing_players[i].checked_in_at.t)

\* every record parsed and solve_teams was called
SolveEntered == pc # "parse" /\ \A i \in 1..Len(input) : RecordParses(input[i])

\* solve_teams is past its split of a roster of at least six players
PastSplit == SolveEntered /\ ~too_few(Len(players)) /\ pc # "solve"

\* C5: for a roster of six or more the split yields the pools (it does not
\* raise), and the playing pool is the first total_playing players in the
\* order where a missing timestamp sorts before every timestamp and equal
\* keys keep their input order: every playing player comes before every
\* bench player in that order, no bench player arrived strictly earlier
\* than a playing player, and a player without timestamp is benched only
\* if every playing player has none either and precedes it in the input
C5_PoolIsFirstArrivals ==
    PastSplit =>
        /\ pc # "raised"
        /\ PoolsPartitionRoster
        /\ \A i \in 1..Len(playing_players), j \in 1..Len(sub_players) :
              WrittenBefore(playing_players[i], sub_players[j])
        /\ NoBenchArrivedEarlier
        /\ \A j \in 1..Len(sub_players) : ~HasTime(sub_players[j]) =>
              \A i \in 1..Len(playing_players) :
                  /\ ~HasTime(playing_players[i])
                  /\ InputIndex(playing_players[i]) < InputIndex(sub_players[j])

\* C6: every parsed Player has rating in [1,5] and age in [5,100]
C6_RatingAndAgeClamped ==
    \A i \in 1..Len(players) :
        /\ players[i].rating \in 1..5
        /\ players[i].age \in 5..100

\* C7: fewer than 6 players: a failure result with nothing in it, and no
\* generator, refiner or role assigner has run; 6 or more: never a failure
C7_SmallRosterRejected ==
    /\ (SolveEntered /\ Len(players) < 6) =>
          /\ generated = <<>> /\ teams = <<>> /\ all_results = <<>>
          /\ best_teams = <<>> /\ assignments = <<>> /\ team_metrics = <<>>
          /\ pc = "done" =>
                /\ result.kind = "returned" /\ ~result.success
                /\ result.assignments = <<>>
                /\ result.team_metrics = <<>>
                /\ result.warnings = <<>>
    /\ (pc = "done" /\ Len(players) >= 6) => result.success

\* five players parsed and the solve returned the failure
C7_Witness ==
    /\ pc = "done"
    /\ Len(players) = 5
    /\ result.message = "not_enough_players"

PlayerById(id) == CHOOSE p \in Range(players) : p.player_id = id

\* C8: every role is the player's main or alternate position, a bench role
\* is the main position, and GK is given only to a main-position goalkeeper
C8_RolesFromOwnPositions ==
    Succeeded =>
        \A k \in 1..Len(result.assignments) :
            LET a == result.assignments[k]
                p == PlayerById(a.player_id)
            IN  /\ a.role \in {p.main_pos, p.alt_pos}
                /\ a.team = "SUB" => a.role = p.main_pos
                /\ a.role = "GK" => p.main_pos = "GK"

\* a success in which a player plays the alternate position, a benched
\* player has an alternate position, and a goalkeeper-by-alternate plays
C8_Witness ==
    /\ Succeeded
    /\ \E k \in 1..Len(result.assignments) :
          result.assignments[k].role # PlayerById(result.assignments[k].player_id).main_pos
    /\ \E k \in 1..Len(result.assignments) :
          /\ result.assignments[k].team = "SUB"
          /\ PlayerById(result.assignments[k].player_id).alt_pos # None

\* the strategy loop is over
AfterLoop == pc \in {"roles", "metrics"} \/ Succeeded

\* the first strategy, in the order of `strategies`, whose refined
\* partition has the least score
FirstMinimal ==
    CHOOSE k \in 1..Len(all_results) :
        /\ \A j \in 1..Len(all_results) : all_results[k].score <= all_results[j].score
        /\ \A j \in 1..(k - 1) : all_results[j].score > all_results[k].score

\* C9: the selected partition scores no more than any strategy's refined
\* partition, and on a tie it is the earliest strategy's
C9_SelectedIsFirstMinimum ==
    AfterLoop =>
        /\ Len(all_results) = Len(strategies)
        /\ \A k \in 1..Len(all_results) :
              calculate_solution_score(best_teams) <= all_results[k].score
        /\ best_strategy = strategies[FirstMinimal]
        /\ best_teams = all_results[FirstMinimal].teams
        /\ best_score = calculate_solution_score(best_teams)

\* two strategies tie on the least score with different partitions
C9_Witness ==
    /\ AfterLoop
    /\ \E j \in 1..Len(all_results) :
          /\ j > FirstMinimal
          /\ all_results[j].score = best_score
          /\ all_results[j].teams # best_teams

\* C10: inside optimize_with_swaps the tracked score is the score of the
\* working partition, the iteration count stays within max_iterations, the
\* score never rises from one iteration to the next and falls strictly
\* whenever a swap is applied
C10_RefinerNeverRegresses ==
    /\ [](pc = "optimize" =>
            /\ current_score = calculate_solution_score(teams)
            /\ iteration <= max_iterations)
    /\ [][(pc = "optimize" /\ pc' = "optimize") =>
            /\ calculate_solution_score(teams') <= calculate_solution_score(teams)
            /\ teams' # teams =>
                  calculate_solution_score(teams') < calculate_solution_score(teams)
            /\ iteration' = iteration + 1]_vars

\* the refiner has applied two swaps in a row
C10_Witness ==
    /\ pc = "optimize"
    /\ iteration >= 2
    /\ improved
    /\ teams # generated

\* the parsed roster is six players rated 5,5,5,1,1,1 of ages 5 to 100,
\* exactly two of them main-position goalkeepers and the other four covering
\* DF, MID and ST
SkillSplitCase ==
    /\ Len(players) = MinPlayers
    /\ Cardinality({i \in 1..Len(players) : players[i].rating = 5}) = 3
    /\ Cardinality({i \in 1..Len(players) : players[i].rating = 1}) = 3
    /\ \A i \in 1..Len(players) : players[i].age \in 5..100
    /\ Cardinality({i \in 1..Len(players) : players[i].main_pos = "GK"}) = 2
    /\ \A pos \in Range(FieldPositions) :
          \E i \in 1..Len(players) : players[i].main_pos = pos

\* main-position goalkeepers among the players assigned to a team
GoalkeepersOf(color) ==
    {k \in 1..Len(result.assignments) :
        /\ result.assignments[k].team = color
        /\ PlayerById(result.assignments[k].player_id).main_pos = "GK"}

\* the reported skill sums of RED and BLUE differ by at most gap
SkillSumsWithin(gap) ==
    LET d == result.team_metrics[1].skill_sum - result.team_metrics[2].skill_sum
    IN  d <= gap /\ 0 - d <= gap

TwoTeamsOfThree ==
    /\ Len(result.team_metrics) = 2
    /\ \A t \in 1..2 :
          /\ result.team_metrics[t].team = team_colors[t]
          /\ result.team_metrics[t].player_count = 3
          /\ AssignedTo(team_colors[t]) = 3

OneKeeperEach == \A t \in 1..2 : Cardinality(GoalkeepersOf(team_colors[t])) = 1

\* both goalkeepers are in one team
KeepersTogether == \E t \in 1..2 : Cardinality(GoalkeepersOf(team_colors[t])) = 2

\* the swaps of the selected partition that exchange a goalkeeper for a
\* player of the other team who is not one
SeparatingSwaps ==
    {sw \in Swaps(best_teams) :
        (best_teams[sw[1]][sw[3]].main_pos = "GK") # (best_teams[sw[2]][sw[4]].main_pos = "GK")}

\* no exchange of a goalkeeper for a player of the other team lowers the
\* score of the selected partition
NoSeparatingSwapScoresLower ==
    \A sw \in SeparatingSwaps :
        calculate_solution_score(SwapPlayers(best_teams, sw))
            >= calculate_solution_score(best_teams)

GoalkeeperCapable ==
    {i \in 1..Len(players) : players[i].main_pos = "GK" \/ players[i].alt_pos = "GK"}

\* 22 players, at least three of them goalkeeper-capable
KeeperCase == Len(players) = 22 /\ Cardinality(GoalkeeperCapable) >= 3

ThreeTeamsOfSevenOneBenched ==
    /\ Len(result.team_metrics) = 3
    /\ \A t \in 1..3 :
          /\ result.team_metrics[t].player_count = 7
          /\ AssignedTo(team_colors[t]) = 7
    /\ AssignedTo("SUB") = 1

\* C12: 22 players with at least 3 goalkeeper-capable give 3 teams of 7 and
\* 1 bench player, every team's has_goalkeeper is true and no
\* missing-goalkeeper warning is emitted
C12_NoTeamLacksGoalkeeper ==
    (Succeeded /\ KeeperCase) =>
        /\ ThreeTeamsOfSevenOneBenched
        /\ \A t \in 1..3 : result.team_metrics[t].has_goalkeeper
        /\ \A w \in 1..Len(result.warnings) :
              result.warnings[w][1] # "missing_goalkeeper"

\* C13: the partition a generator returns for the playing pool and the
\* planned team_sizes has team_count teams and exactly team_sizes[t] players
\* in team t, whichever of the three generators it is
C13_GeneratorsMatchPlan ==
    (pc = "optimize" /\ si \in 1..Len(strategies)) =>
        /\ Len(generated) = team_count
        /\ \A t \in 1..team_count : Len(generated[t]) = team_sizes[t]

\* the hybrid generator has just returned
HybridGenerated == pc = "optimize" /\ iteration = 0 /\ strategies[si] = "balanced_hybrid"

\* the choices of phase (b) that produced the partition in `generated`
PhaseTwoPicks == bh_picks(playing_players, team_count, team_sizes)

\* C14 as written: a team lacking a field position receives the strongest
\* unassigned player of the position when its skill sum is strictly below
\* the average of the teams' skill sums, and the weakest when its skill sum
\* equals or exceeds the average
C14_AsWritten ==
    HybridGenerated =>
        \A k \in 1..Len(PhaseTwoPicks) :
            LET pick == PhaseTwoPicks[k]
            IN  IF pick.skill * team_count < pick.total
                THEN pick.got = pick.strongest
                ELSE pick.got = pick.weakest

\* C14: a team lacking a field position receives the strongest unassigned
\* player of the position when its skill sum is at or below the average of
\* the teams' skill sums, and the weakest when it is strictly above
C14_StrongestAtOrBelowAverage ==
    HybridGenerated =>
        \A k \in 1..Len(PhaseTwoPicks) :
            LET pick == PhaseTwoPicks[k]
            IN  IF pick.skill * team_count <= pick.total
                THEN pick.got = pick.strongest
                ELSE pick.got = pick.weakest

\* the hybrid served a team exactly at the average, a team strictly below
\* it and a team strictly above it, each from players of different ratings
C14_Witness ==
    /\ HybridGenerated
    /\ \A c \in {0 - 1, 0, 1} :
          \E k \in 1..Len(PhaseTwoPicks) :
              LET pick == PhaseTwoPicks[k]
                  d == pick.skill * team_count - pick.total
              IN  /\ pick.strongest # pick.weakest
                  /\ (c < 0 => d < 0) /\ (c = 0 => d = 0) /\ (c > 0 => d > 0)
                  /\ c = 0 => pick.total > 0

\* the player_ids of a partition
IdsOf(ts) == UNION { {ts[t][i].player_id : i \in 1..Len(ts[t])} : t \in 1..Len(ts) }

\* the places (team, slot) of a partition holding the player id
PlacesOf(ts, id) ==
    UNION { {<<t, i>> : i \in {j \in 1..Len(ts[t]) : ts[t][j].player_id = id}} :
            t \in 1..Len(ts) }

\* C15: while optimize_with_swaps runs and when it returns, its partition
\* has as many teams as the partition passed in, the same size at every team
\* index and the same player_ids, each in exactly one place; and the
\* partition passed in is never changed
C15_RefinerOnlyPermutes ==
    /\ [](pc = "optimize" =>
            /\ Len(teams) = Len(generated)
            /\ \A t \in 1..Len(teams) : Len(teams[t]) = Len(generated[t])
            /\ IdsOf(teams) = IdsOf(generated)
            /\ \A id \in IdsOf(generated) : Cardinality(PlacesOf(teams, id)) = 1)
    /\ [][pc = "optimize" => generated' = generated]_vars

\* the refiner is about to return a partition of unequal team sizes that
\* differs from the one passed in
C15_Witness ==
    /\ pc = "optimize"
    /\ ~improved
    /\ teams # generated
    /\ \E t \in 1..Len(teams) : Len(teams[t]) # Len(teams[1])

\* the role pass is over
RolesAssigned == pc = "metrics" \/ Succeeded

\* the assignments to a team colour whose role is pos
RoleHolders(color, pos) ==
    {k \in 1..Len(assignments) : assignments[k].team = color /\ assignments[k].role = pos}

HasMain(team, pos) == \E i \in 1..Len(team) : team[i].main_pos = pos

CountsSum(counts) == SumSeq([k \in 1..Len(draft_order) |-> counts[draft_order[k]]])

\* C16: after the role pass every position that is some member's main
\* position is still some member's role; no player is reassigned twice; the
\* role counts sum to the team size after every reassignment, at the end and
\* in the reported metrics; and has_goalkeeper is true exactly for the teams
\* with a main-position goalkeeper
C16_RolePassKeepsRoles ==
    /\ RolesAssigned =>
          \A t \in 1..Len(best_teams) :
              LET team == best_teams[t]
                  pass == role_pass(team)
              IN  /\ \A pos \in Position :
                        HasMain(team, pos) => RoleHolders(team_colors[t], pos) # {}
                  /\ \A a, b \in 1..Len(pass.moves) :
                        pass.moves[a].player = pass.moves[b].player => a = b
                  /\ \A a \in 1..Len(pass.moves) :
                        /\ CountsSum(pass.moves[a].counts) = Len(team)
                        /\ pass.moves[a].counts[pass.moves[a].from] >= 1
                  /\ CountsSum(pass.pos_counts) = Len(team)
                  /\ \A pos \in Position :
                        pass.pos_counts[pos] = Cardinality(RoleHolders(team_colors[t], pos))
    /\ Succeeded =>
          \A t \in 1..Len(best_teams) :
              /\ CountsSum(team_metrics[t].positions) = team_metrics[t].player_count
              /\ team_metrics[t].player_count = Len(best_teams[t])
              /\ team_metrics[t].has_goalkeeper <=> HasMain(best_teams[t], "GK")

\* a success in which one team had a player reassigned out of a role with
\* several occupants, one team has no main-position goalkeeper although a
\* member could keep goal by alternate position, and one team has a gap
\* that stays because its only candidate is the sole occupant of a role
C16_Witness ==
    /\ Succeeded
    /\ \E t \in 1..Len(best_teams) : role_pass(best_teams[t]).moves # <<>>
    /\ \E t \in 1..Len(best_teams) :
          /\ ~team_metrics[t].has_goalkeeper
          /\ \E i \in 1..Len(best_teams[t]) : best_teams[t][i].alt_pos = "GK"
    /\ \E t \in 1..Len(best_teams) : \E pos \in Range(FieldPositions) :
          /\ team_metrics[t].positions[pos] = 0
          /\ \E i \in 1..Len(best_teams[t]) : best_teams[t][i].alt_pos = pos

====
